---- MODULE Spec2Model ----
(***************************************************************************)
(* RequestQueue (src/src/core/BaseManager.ts, lines 399-675): a PQueue     *)
(* with a concurrency limit and an interval cap, wrapped with a per-domain *)
(* rate limit (enforceRateLimit), retries (pRetry) with backoff sleeps,    *)
(* and batch submission (addBatch).                                        *)
(*                                                                         *)
(* Time is in milliseconds and is kept relative to the current instant:    *)
(* a timer (setTimeout, setInterval) is the time left until it fires, a    *)
(* timestamp of the past (lastRequestTime) is its age Date.now() - t.      *)
(* AdvanceTime lets the time up to the next timer pass.  An age is kept    *)
(* up to the largest value the code distinguishes (requestDelay).          *)
(* One action is one callback of the event loop: the synchronous code and  *)
(* the promise continuations it triggers, up to the next timer, operation  *)
(* settlement or external call.                                            *)
(*                                                                         *)
(* An operation (taskFn) is opaque: each invocation settles with a value   *)
(* or throws an Error of kind "Transient" (any Error that is not a         *)
(* RateLimitError: network, timeout, validation) or "RateLimit"            *)
(* (RateLimitError, with or without retryAfter).                           *)
(***************************************************************************)
EXTENDS Integers, Sequences, FiniteSets, TLC

\* ---------------------------------------------------------------- bounds
MaxTasks == 3         \* tasks of Spec
MaxRetries == 1       \* their retries (config.maxRetries)
MaxOrderTasks == 3    \* tasks of SpecOrder, submitted with a priority and retries: 0
MaxRetryTasks == 2    \* tasks of SpecRetry
RetryLimit == 2       \* their retries
MaxBatchOps == 3      \* operations given to addBatch in SpecBatch
MaxBatchSize == 2     \* its batchSize option
MaxShutdownTasks == 3 \* tasks of SpecShutdown, submitted with retries: 0
MaxPages == 2         \* largest totalPages given to ProgressTracker.start
MaxBytes == 1         \* largest byte count given to updateProgress
MaxAge == 1           \* seconds since lastUpdate that are told apart
MaxErrors == 1        \* error strings a progress entry collects
MaxDownloads == 2     \* downloadSingleImage calls for one sink path
MaxChunks == 2        \* chunks of a response body
ChunkSize == 600      \* bytes of a chunk
MaxAttempt == 8       \* largest attempt number given to calculateBackoff
RandomSteps == 16     \* values of Math.random() told apart: r / RandomSteps
SizeSpread == 25      \* queue sizes looked at on each side of the health ceiling
MaxRequeueTasks == 3  \* tasks of SpecRequeue
RequeueRetries == 1   \* their retries
MaxWindowTasks == 6   \* tasks of SpecWindow, each with a destination of its own
MaxDrainTasks == 2    \* tasks of SpecDrain
DrainRetries == 1     \* their retries
MaxChapterPages == 2  \* pages of the chapter given to downloadChapter

\* ------------------------------------------------- configuration constants
MaxConcurrent == 2
DownloadBatchCap == 3      \* Math.min(config.performance.batchSize, 3)
DownloadBatchDelay == 500  \* delayBetweenBatches of downloadChapter
RequestDelay == 1000
BackoffMultiplier == 2
MaxDelay == 10000
BaseDelay == 1000
Interval == 1000
MinValidSize == 1000
HealthCeiling == 1000

IntervalCap == MaxConcurrent * 2

Max(a, b) == IF a > b THEN a ELSE b
Tasks == 1..Max(Max(Max(MaxTasks, MaxBatchOps), Max(MaxOrderTasks, MaxRetryTasks)),
                Max(Max(MaxShutdownTasks, MaxRequeueTasks), MaxWindowTasks))
Priorities == {0, 1}
\* the destination of the id-th task of SpecWindow
Host(id) == "host" \o ToString(id)
Domains == {"unknown"} \cup {Host(id) : id \in 1..MaxWindowTasks}
RetryAfterChoices == {0, 1000}

NoError == [kind |-> "none", attempt |-> 0, retryAfter |-> 0]
NoProbe == [fn |-> "none"]

VARIABLES
  queue,            \* PQueue: the priority-ordered array of waiting jobs
  pending,          \* PQueue: number of jobs started and not finished
  isPaused,         \* PQueue: isPaused
  intervalCount,    \* PQueue: jobs started in the current interval
  intervalId,       \* PQueue: TRUE while the setInterval timer is armed
  intervalNext,     \* time left to the next tick of the setInterval timer
  intervalEnd,      \* PQueue: intervalEnd - Date.now(), -1 once negative
  timeoutId,        \* PQueue: TRUE while the resume-interval timeout is armed
  lastRequestAge,   \* Date.now() - (lastRequestTime.get(domain) || 0), up to RequestDelay
  requestCounts,    \* RequestQueue.requestCounts
  task,             \* per submitted task: queueItem, closure locals, promise
  onIdlePromise,    \* onIdle(): "none" before the call, "returned" when it found
                    \* the queue idle, else "pending" until 'idle' has "resolved" it
  batch,            \* the addBatch call: its arguments, locals and position
  destroyPc,        \* destroy(): "none" before the call, "draining" while it
                    \* awaits queue.onIdle(), "done" once it has cleared the maps
  dispatchLog       \* history: once on, the ages of the PQueue job starts of
                    \* the last Interval milliseconds, oldest first

queueVars == <<queue, pending, isPaused, intervalCount, intervalId, intervalNext,
               intervalEnd, timeoutId, lastRequestAge, requestCounts, task,
               onIdlePromise, batch, destroyPc, dispatchLog>>

VARIABLES
  activeProgress,     \* ProgressTracker.activeProgress: a Map, in insertion order
  completedProgress,  \* ProgressTracker.completedProgress, likewise
  emitted,            \* the events the last ProgressTracker call has emitted
  lastCall            \* the last ProgressTracker call, and whether it repeats
                      \* the call before it

trackerVars == <<activeProgress, completedProgress, emitted, lastCall>>

VARIABLES
  download,           \* the downloadSingleImage call for one filepath: its
                      \* options, locals, position and outcome
  file                \* the file at filepath

downloadVars == <<download, file>>

VARIABLES
  probe               \* the last call of a side-effect-free method of
                      \* RequestQueue: its inputs and what it returned

probeVars == <<probe>>

VARIABLES
  chapter             \* the downloadChapter call: its position, the pages of
                      \* sources, the downloadedBytes local of each page's
                      \* response and the DownloadResult returned

chapterVars == <<chapter>>

nonQueueVars == <<trackerVars, downloadVars, probeVars, chapterVars>>

nonTrackerVars == <<queueVars, downloadVars, probeVars, chapterVars>>

nonDownloadVars == <<queueVars, trackerVars, probeVars, chapterVars>>

vars == <<queueVars, trackerVars, downloadVars, probeVars, chapterVars>>

\* ------------------------------------------------------------ task records
Unsubmitted ==
  [pc |-> "unsubmitted", priority |-> 0, maxRetries |-> 0, retries |-> 0,
   domain |-> "unknown", attempt |-> 0, wake |-> 0, invocations |-> 0,
   err |-> NoError, taskComplete |-> 0, taskError |-> 0, aborted |-> FALSE]

InFlight == {"rateLimitWait", "running", "rateLimitedSleep", "backoffSleep",
             "retryWait"}
Settled == {"resolved", "rejected"}
Sleeping == {"rateLimitWait", "rateLimitedSleep", "backoffSleep", "retryWait"}

\* The machine state threaded through the synchronous code of one callback.
\* idle: an 'idle' event was emitted; ret: tryToStartAnother's return value.
Cur ==
  [queue |-> queue, pending |-> pending, isPaused |-> isPaused,
   intervalCount |-> intervalCount, intervalId |-> intervalId,
   intervalNext |-> intervalNext, intervalEnd |-> intervalEnd,
   timeoutId |-> timeoutId, lastRequestAge |-> lastRequestAge,
   requestCounts |-> requestCounts, task |-> task, batch |-> batch,
   destroyPc |-> destroyPc, dispatchLog |-> dispatchLog, idle |-> FALSE,
   ret |-> FALSE]

\* destroy() after its await: queue.clear() and the clear() of the maps; a
\* cleared lastRequestTime reads as 0, an age of at least requestDelay
Destroyed(m) ==
  [m EXCEPT !.queue = <<>>,
            !.requestCounts = [d \in Domains |-> 0],
            !.lastRequestAge = [d \in Domains |-> RequestDelay],
            !.destroyPc = "done"]

\* The callback ends; the continuations of the promises that an 'idle' event
\* has resolved (onIdle, destroy) run before any other callback.
CommitQueue(m) ==
  LET n == IF m.idle /\ m.destroyPc = "draining" THEN Destroyed(m) ELSE m
  IN /\ queue' = n.queue
     /\ pending' = n.pending
     /\ isPaused' = n.isPaused
     /\ intervalCount' = n.intervalCount
     /\ intervalId' = n.intervalId
     /\ intervalNext' = n.intervalNext
     /\ intervalEnd' = n.intervalEnd
     /\ timeoutId' = n.timeoutId
     /\ lastRequestAge' = n.lastRequestAge
     /\ requestCounts' = n.requestCounts
     /\ task' = n.task
     /\ batch' = n.batch
     /\ destroyPc' = n.destroyPc
     /\ dispatchLog' = n.dispatchLog
     /\ onIdlePromise' = IF m.idle /\ onIdlePromise = "pending" THEN "resolved"
                         ELSE onIdlePromise

\* a callback of the queue alone
Commit(m) == CommitQueue(m) /\ UNCHANGED nonQueueVars

\* --------------------------------------------------------------- backoff
RECURSIVE Pow(_, _)
Pow(b, e) == IF e = 0 THEN 1 ELSE b * Pow(b, e - 1)

Min(a, b) == IF a < b THEN a ELSE b

\* the exponential term without the cap
BackoffDelayUncapped(attempt) == BaseDelay * Pow(BackoffMultiplier, attempt)
\* calculateBackoff without the jitter: min(baseDelay * multiplier^attempt, maxDelay)
BackoffDelay(attempt) == Min(BaseDelay * Pow(BackoffMultiplier, attempt), MaxDelay)

\* Math.random() * 0.1 * delay, in whole milliseconds: the two ends of the range
JitterChoices(delay) == {0, (delay \div 10) - 1}

CalculateBackoff(attempt, jitter) == BackoffDelay(attempt) + jitter

\* pRetry is given only `retries`: the timeout before attempt n+1 is the
\* library default 1000 * 2^(n-1)
RetryTimeout(attempt) == 1000 * Pow(2, attempt - 1)

\* ------------------------------------------------------ enforceRateLimit
\* lastRequestTime.set(domain, Date.now()); requestCounts + 1
RecordRequest(m, i) ==
  LET d == m.task[i].domain
  IN [m EXCEPT !.lastRequestAge[d] = 0, !.requestCounts[d] = @ + 1]

\* const result = await taskFn()
InvokeTask(m, i) ==
  [m EXCEPT !.task[i].pc = "running", !.task[i].invocations = @ + 1]

RateLimitWaitTime(timeSinceLastRequest) ==
  IF timeSinceLastRequest < RequestDelay
  THEN RequestDelay - timeSinceLastRequest ELSE 0

EnforceRateLimit(m, i) ==
  LET waitTime == RateLimitWaitTime(m.lastRequestAge[m.task[i].domain])
  IN IF waitTime > 0
     THEN [m EXCEPT !.task[i].pc = "rateLimitWait", !.task[i].wake = waitTime]
     ELSE InvokeTask(RecordRequest(m, i), i)

\* ------------------------------------------------- PQueue, pRetry, add
\* variant of ConcurrentAllowsAnother: the limit compared with <=
ConcurrentAllowsOneMore(m) == m.pending <= MaxConcurrent

ConcurrentAllowsAnother(m) == m.pending < MaxConcurrent

IntervalAllowsAnother(m) == m.intervalCount < IntervalCap

\* PQueue's isIntervalPaused getter: its value, and its side effects
IsIntervalPaused(m) == ~m.intervalId /\ m.intervalEnd >= 0

IntervalPausedEffect(m) ==
  IF m.intervalId THEN m
  ELSE IF m.intervalEnd < 0 THEN [m EXCEPT !.intervalCount = 0]
  ELSE [m EXCEPT !.timeoutId = TRUE]

InitializeIntervalIfNeeded(m) ==
  IF m.intervalId THEN m
  ELSE [m EXCEPT !.intervalId = TRUE, !.intervalEnd = Interval,
                 !.intervalNext = Interval]

RECURSIVE TryToStartAnother(_)
RECURSIVE Attempt(_, _)
RECURSIVE Thrown(_, _, _)

\* PQueue's next(): a job has finished
JobFinished(m) == TryToStartAnother([m EXCEPT !.pending = @ - 1])

\* variant of Thrown: one attempt more than retries + 1
ThrownRetriesOnceMore(m, i, error) ==
  IF m.task[i].attempt <= m.task[i].maxRetries + 1
  THEN [m EXCEPT !.task[i].pc = "retryWait", !.task[i].err = NoError,
                 !.task[i].wake = RetryTimeout(m.task[i].attempt)]
  ELSE JobFinished([m EXCEPT !.task[i].pc = "rejected", !.task[i].err = error])

\* pRetry handles the error thrown by an attempt: retry after its timeout
\* while retries are left, else reject, which ends the PQueue job
Thrown(m, i, error) ==
  IF m.task[i].attempt <= m.task[i].maxRetries
  THEN [m EXCEPT !.task[i].pc = "retryWait", !.task[i].err = NoError,
                 !.task[i].wake = RetryTimeout(m.task[i].attempt)]
  ELSE JobFinished([m EXCEPT !.task[i].pc = "rejected", !.task[i].err = error])

\* The function given to pRetry, up to its first suspension.
Attempt(m, i) ==
  IF m.task[i].aborted
  THEN Thrown(m, i, [kind |-> "Aborted", attempt |-> m.task[i].attempt, retryAfter |-> 0])
  ELSE EnforceRateLimit(m, i)

\* The job PQueue runs for a task: count it, then call pRetry's first attempt.
RunJob(m, i) ==
  Attempt([m EXCEPT !.pending = @ + 1, !.intervalCount = @ + 1,
                    !.task[i].attempt = 1,
                    !.dispatchLog.ages = IF m.dispatchLog.on THEN Append(@, 0) ELSE @],
          i)

\* variant of IdleEmitted: idle as soon as the queue is empty
IdleWhenEmpty(m) == TRUE

\* PQueue emits 'idle' when the queue is empty and no job is pending
IdleEmitted(m) == m.pending = 0

TryToStartAnother(m) ==
  IF Len(m.queue) = 0
  THEN [m EXCEPT !.intervalId = FALSE, !.idle = @ \/ IdleEmitted(m), !.ret = FALSE]
  ELSE IF m.isPaused THEN [m EXCEPT !.ret = FALSE]
  ELSE LET canInitializeInterval == ~IsIntervalPaused(m)
           m1 == IntervalPausedEffect(m)
       IN IF IntervalAllowsAnother(m1) /\ ConcurrentAllowsAnother(m1)
          THEN LET m2 == RunJob([m1 EXCEPT !.queue = Tail(@)], Head(m1.queue))
                   m3 == IF canInitializeInterval
                         THEN InitializeIntervalIfNeeded(m2) ELSE m2
               IN [m3 EXCEPT !.ret = TRUE]
          ELSE [m1 EXCEPT !.ret = FALSE]

RECURSIVE ProcessQueue(_)
ProcessQueue(m) ==
  LET r == TryToStartAnother(m)
  IN IF r.ret THEN ProcessQueue(r) ELSE r

OnInterval(m) ==
  LET m1 == IF m.intervalCount = 0 /\ m.pending = 0 /\ m.intervalId
            THEN [m EXCEPT !.intervalId = FALSE] ELSE m
  IN ProcessQueue([m1 EXCEPT !.intervalCount = 0])

\* PriorityQueue.enqueue: behind every waiting job of priority >= the new one
LowerBound(q, priority, t) ==
  Cardinality({k \in 1..Len(q) : t[q[k]].priority >= priority})

\* variant of Enqueue: the priority ignored
EnqueueFifo(q, i, priority, t) == Append(q, i)

Enqueue(q, i, priority, t) ==
  LET index == LowerBound(q, priority, t)
  IN SubSeq(q, 1, index) \o <<i>> \o SubSeq(q, index + 1, Len(q))

\* RequestQueue.add up to the return of this.queue.add
Add(m, i, priority, retries, domain) ==
  LET item == [Unsubmitted EXCEPT !.pc = "queued", !.priority = priority,
                                  !.maxRetries = retries, !.domain = domain]
      m1 == [m EXCEPT !.task[i] = item,
                      !.queue = Enqueue(m.queue, i, priority, m.task)]
  IN TryToStartAnother(m1)

NextId(m) == Cardinality({i \in Tasks : m.task[i].pc # "unsubmitted"}) + 1

\* --------------------------------------------------------------- addBatch
\* tasks: the number of operations, operation k being tasks[k]; i: the loop
\* index; ops[k + 1]: the task submitted for operation k; results: the
\* operations whose values were pushed; callbacks: the onBatchComplete calls
NoBatch ==
  [pc |-> "idle", tasks |-> 0, batchSize |-> 1, delayBetweenBatches |-> 0,
   i |-> 0, ops |-> <<>>, results |-> <<>>, callbacks |-> <<>>, wake |-> 0]

\* the operations of tasks.slice(i, i + batchSize)
BatchSlice(b) ==
  [j \in 1..(Min(b.i + b.batchSize, b.tasks) - b.i) |-> b.i + j - 1]

\* variant of AllSettled, Promise.all: resolved once every promise is
\* fulfilled or one is rejected
AllFulfilledOrOneRejected(b, t) ==
  \/ \A j \in 1..Len(BatchSlice(b)) : t[b.ops[BatchSlice(b)[j] + 1]].pc = "resolved"
  \/ \E j \in 1..Len(BatchSlice(b)) : t[b.ops[BatchSlice(b)[j] + 1]].pc = "rejected"

\* Promise.allSettled(batchPromises) has resolved
AllSettled(b, t) ==
  \A j \in 1..Len(BatchSlice(b)) : t[b.ops[BatchSlice(b)[j] + 1]].pc \in Settled

IsFulfilled(b, t, k) == t[b.ops[k + 1]].pc = "resolved"

Reverse(q) == [j \in 1..Len(q) |-> q[Len(q) + 1 - j]]

\* variant of SuccessfulResults: the fulfilled values in reverse order
SuccessfulResultsReversed(b, t) ==
  Reverse(SelectSeq(BatchSlice(b), LAMBDA k : IsFulfilled(b, t, k)))

\* batchResults.filter(fulfilled).map(value)
SuccessfulResults(b, t) ==
  SelectSeq(BatchSlice(b), LAMBDA k : IsFulfilled(b, t, k))

\* batchResults.filter(rejected).map(reason)
FailedResults(b, t) ==
  SelectSeq(BatchSlice(b), LAMBDA k : ~IsFulfilled(b, t, k))

\* batch.map(task => this.add(task)) for the operations k..hi-1
RECURSIVE SubmitSlice(_, _, _)
SubmitSlice(m, k, hi) ==
  IF k >= hi THEN m
  ELSE LET id == NextId(m)
           m1 == Add(m, id, 0, MaxRetries, "unknown")
       IN SubmitSlice([m1 EXCEPT !.batch.ops = Append(@, id)], k + 1, hi)

\* variant of BatchLoop: the loop ends after its first pass
BatchLoopOnce(m) ==
  LET b == m.batch
  IN IF b.i = 0
     THEN SubmitSlice([m EXCEPT !.batch.pc = "awaiting"], b.i,
                      Min(b.i + b.batchSize, b.tasks))
     ELSE [m EXCEPT !.batch.pc = "returned"]
\* the head of the for loop: the next slice is submitted, or results returned
BatchLoop(m) ==
  LET b == m.batch
  IN IF b.i < b.tasks
     THEN SubmitSlice([m EXCEPT !.batch.pc = "awaiting"], b.i,
                      Min(b.i + b.batchSize, b.tasks))
     ELSE [m EXCEPT !.batch.pc = "returned"]

\* what addBatch returns: the values pushed to results; the failed results
\* are logged and dropped
AddBatchReturn == [succeeded |-> batch.results, failed |-> <<>>]

\* --------------------------------------------------------- downloadChapter
\* pages[k + 1]: for sources.sources[k], the attempt of its task whose
\* response is streaming and the downloadedBytes local of that response
NoChapter == [pc |-> "idle", totalPages |-> 0, pages |-> <<>>, result |-> <<>>]

\* ---------------------------------------------------------------- actions
Init ==
  /\ queue = <<>>
  /\ pending = 0
  /\ isPaused = FALSE
  /\ intervalCount = 0
  /\ intervalId = FALSE
  /\ intervalNext = 0
  /\ intervalEnd = -1
  /\ timeoutId = FALSE
  /\ lastRequestAge = [d \in Domains |-> RequestDelay]
  /\ requestCounts = [d \in Domains |-> 0]
  /\ task = [i \in Tasks |-> Unsubmitted]
  /\ onIdlePromise = "none"
  /\ batch = NoBatch
  /\ destroyPc = "none"
  /\ dispatchLog = [on |-> FALSE, ages |-> <<>>]
  /\ activeProgress = <<>>
  /\ completedProgress = <<>>
  /\ emitted = <<>>
  /\ lastCall = [op |-> "none", id |-> "none", repeat |-> FALSE]
  /\ download = [pc |-> "idle", calls |-> 0, skipExisting |-> FALSE,
                 convert |-> FALSE, contentType |-> "none", chunks |-> 0,
                 downloadedBytes |-> 0, result |-> <<>>, error |-> <<>>]
  /\ file = [exists |-> FALSE, size |-> 0, origin |-> "none"]
  /\ probe = NoProbe
  /\ chapter = NoChapter

\* a caller calls add(taskFn, {priority, retries, url})
SubmitTaskTo(limit, priorities, retries, domains) ==
  /\ NextId(Cur) <= limit
  /\ \E priority \in priorities, domain \in domains :
       Commit(Add(Cur, NextId(Cur), priority, retries, domain))

\* add() without a url option: the domain is 'unknown'
SubmitTask(limit, priorities, retries) ==
  SubmitTaskTo(limit, priorities, retries, {"unknown"})

Submit == SubmitTask(MaxTasks, {0}, MaxRetries)

SubmitPriority == SubmitTask(MaxOrderTasks, Priorities, 0)

SubmitRetry == SubmitTask(MaxRetryTasks, {0}, RetryLimit)

SubmitShutdown == SubmitTask(MaxShutdownTasks, {0}, 0)

SubmitRequeue == SubmitTask(MaxRequeueTasks, Priorities, RequeueRetries)

SubmitDrain == SubmitTask(MaxDrainTasks, {0}, DrainRetries)

\* add() with a url whose hostname no earlier task has used
SubmitWindow == SubmitTaskTo(MaxWindowTasks, {0}, 0, {Host(NextId(Cur))})

\* the job starts are recorded from now on
Watch ==
  /\ ~dispatchLog.on
  /\ NextId(Cur) = 1
  /\ Commit([Cur EXCEPT !.dispatchLog.on = TRUE])

\* taskFn() resolves: onComplete, and the job ends
OpSucceed(i) ==
  /\ task[i].pc = "running"
  /\ Commit(JobFinished([Cur EXCEPT !.task[i].pc = "resolved",
                                    !.task[i].taskComplete = @ + 1]))

\* the sleep always takes the computed backoff
RateLimitSleepIgnoresRetryAfter(retryAfter, attempt, jitter) ==
  CalculateBackoff(attempt, jitter)
\* the sleep after a RateLimitError: error.retryAfter if it is set (0 stands
\* for a missing or zero retryAfter), the computed backoff otherwise
RateLimitSleep(retryAfter, attempt, jitter) ==
  IF retryAfter # 0 THEN retryAfter ELSE CalculateBackoff(attempt, jitter)

\* taskFn() rejects: the catch block of the attempt
Fail(i, kinds) ==
  /\ task[i].pc = "running"
  /\ \E kind \in kinds, retryAfter \in RetryAfterChoices,
        jitter \in JitterChoices(BackoffDelay(task[i].attempt)) :
       LET attempt == task[i].attempt
           isLastAttempt == attempt = task[i].maxRetries + 1
           error == [kind |-> kind, attempt |-> attempt, retryAfter |-> retryAfter]
           m == [Cur EXCEPT !.task[i].err = error]
       IN /\ kind = "Transient" => retryAfter = 0
          /\ (retryAfter > 0 \/ (kind = "Transient" /\ isLastAttempt)) => jitter = 0
          /\ IF kind = "RateLimit"
             THEN Commit([m EXCEPT !.task[i].pc = "rateLimitedSleep",
                            !.task[i].wake = RateLimitSleep(retryAfter, attempt, jitter)])
             ELSE IF isLastAttempt
             THEN Commit(Thrown([m EXCEPT !.task[i].taskError = @ + 1], i, error))
             ELSE Commit([m EXCEPT !.task[i].pc = "backoffSleep",
                            !.task[i].wake = CalculateBackoff(attempt, jitter)])

OpFail(i) == Fail(i, {"Transient", "RateLimit"})

\* taskFn() rejects with an Error that is not a RateLimitError
OpFailTransient(i) == Fail(i, {"Transient"})

\* the sleep of the catch block ends: throw error
SleepDone(i) ==
  /\ task[i].pc \in {"rateLimitedSleep", "backoffSleep"}
  /\ task[i].wake = 0
  /\ Commit(Thrown(Cur, i, task[i].err))

\* the sleep of enforceRateLimit ends
RateLimitWake(i) ==
  /\ task[i].pc = "rateLimitWait"
  /\ task[i].wake = 0
  /\ Commit(InvokeTask(RecordRequest(Cur, i), i))

\* pRetry's timeout ends: the next attempt
RetryTimer(i) ==
  /\ task[i].pc = "retryWait"
  /\ task[i].wake = 0
  /\ Commit(Attempt([Cur EXCEPT !.task[i].attempt = @ + 1], i))

\* the caller aborts the task's abortSignal
Abort(i) ==
  /\ task[i].pc \in InFlight \cup {"queued"}
  /\ ~task[i].aborted
  /\ Commit([Cur EXCEPT !.task[i].aborted = TRUE])

\* PQueue's setInterval timer
IntervalTick ==
  /\ intervalId
  /\ intervalNext = 0
  /\ Commit(OnInterval([Cur EXCEPT !.intervalNext = Interval]))

\* PQueue's onResumeInterval timeout
ResumeInterval ==
  /\ timeoutId
  /\ intervalEnd <= 0
  /\ Commit([InitializeIntervalIfNeeded(OnInterval(Cur)) EXCEPT !.timeoutId = FALSE])

Pause ==
  /\ ~isPaused
  /\ Commit([Cur EXCEPT !.isPaused = TRUE])

\* variant of Resume: the flag is cleared and the queue is not processed
ResumeFlagOnly ==
  /\ isPaused
  /\ Commit([Cur EXCEPT !.isPaused = FALSE])
\* PQueue.start()
Resume ==
  /\ isPaused
  /\ Commit(ProcessQueue([Cur EXCEPT !.isPaused = FALSE]))

\* PQueue.onIdle()
OnIdle ==
  /\ onIdlePromise = "none"
  /\ onIdlePromise' = IF pending = 0 /\ Len(queue) = 0 THEN "returned" ELSE "pending"
  /\ UNCHANGED <<queue, pending, isPaused, intervalCount, intervalId,
                 intervalNext, intervalEnd, timeoutId, lastRequestAge,
                 requestCounts, task, batch, destroyPc, dispatchLog>>
  /\ UNCHANGED nonQueueVars

\* variant of Destroy: the state is released without the wait for idle
DestroyWithoutDrain ==
  /\ destroyPc = "none"
  /\ Commit(Destroyed(Cur))
\* a caller calls destroy()
Destroy ==
  /\ destroyPc = "none"
  /\ IF pending = 0 /\ Len(queue) = 0
     THEN Commit(Destroyed(Cur))
     ELSE Commit([Cur EXCEPT !.destroyPc = "draining"])

\* a caller calls addBatch(tasks, {batchSize, delayBetweenBatches})
AddBatch ==
  /\ batch.pc = "idle"
  /\ \E n \in 1..MaxBatchOps, batchSize \in 1..MaxBatchSize,
        delay \in {0, RequestDelay} :
       Commit(BatchLoop([Cur EXCEPT !.batch.tasks = n, !.batch.batchSize = batchSize,
                                    !.batch.delayBetweenBatches = delay]))

\* variant of DelayBeforeNextBatch: the sleep is taken after every batch
DelayAfterEveryBatch(b) == b.delayBetweenBatches > 0
\* the condition of the sleep at the end of the loop body
DelayBeforeNextBatch(b) == b.i + b.batchSize < b.tasks /\ b.delayBetweenBatches > 0

\* the rest of the loop body once Promise.allSettled has resolved
BatchSettled ==
  /\ batch.pc = "awaiting"
  /\ AllSettled(batch, task)
  /\ LET successfulResults == SuccessfulResults(batch, task)
         batchIndex == batch.i \div batch.batchSize
         m == [Cur EXCEPT !.batch.results = @ \o successfulResults,
                          !.batch.callbacks = Append(@, <<successfulResults, batchIndex>>)]
     IN IF DelayBeforeNextBatch(batch)
        THEN Commit([m EXCEPT !.batch.pc = "sleeping",
                              !.batch.wake = batch.delayBetweenBatches])
        ELSE Commit(BatchLoop([m EXCEPT !.batch.i = @ + batch.batchSize]))

\* the sleep between two batches ends
BatchWake ==
  /\ batch.pc = "sleeping"
  /\ batch.wake = 0
  /\ Commit(BatchLoop([Cur EXCEPT !.batch.i = @ + batch.batchSize]))

\* ------------------------------------------------------------------ time
Timers ==
  {task[i].wake : i \in {j \in Tasks : task[j].pc \in Sleeping}}
    \cup (IF intervalId THEN {intervalNext} ELSE {})
    \cup (IF timeoutId /\ intervalEnd >= 0 THEN {intervalEnd} ELSE {})
    \cup (IF batch.pc = "sleeping" THEN {batch.wake} ELSE {})

NextTimer == CHOOSE t \in Timers : \A u \in Timers : t <= u

\* Time passes up to the next timer; RequestDelay when no timer is armed.
Elapse(d) ==
  /\ queue' = queue
  /\ pending' = pending
  /\ isPaused' = isPaused
  /\ intervalCount' = intervalCount
  /\ intervalId' = intervalId
  /\ intervalNext' = IF intervalId THEN intervalNext - d ELSE intervalNext
  /\ intervalEnd' = IF intervalEnd - d < 0 THEN -1 ELSE intervalEnd - d
  /\ timeoutId' = timeoutId
  /\ lastRequestAge' = [x \in Domains |-> Min(lastRequestAge[x] + d, RequestDelay)]
  /\ requestCounts' = requestCounts
  /\ task' = [i \in Tasks |-> IF task[i].pc \in Sleeping
                              THEN [task[i] EXCEPT !.wake = @ - d] ELSE task[i]]
  /\ onIdlePromise' = onIdlePromise
  /\ destroyPc' = destroyPc
  /\ batch' = IF batch.pc = "sleeping" THEN [batch EXCEPT !.wake = @ - d] ELSE batch
  /\ dispatchLog' = [dispatchLog EXCEPT
                       !.ages = SelectSeq([k \in 1..Len(@) |-> @[k] + d],
                                          LAMBDA age : age < Interval)]
  /\ UNCHANGED nonQueueVars

AdvanceTime ==
  /\ \A t \in Timers : t > 0
  /\ Elapse(IF Timers # {} THEN NextTimer ELSE RequestDelay)

\* The timers of PQueue, and the passing of time
Clock ==
  \/ IntervalTick
  \/ ResumeInterval
  \/ AdvanceTime

\* The steps of the tasks in the queue
Run ==
  \/ \E i \in Tasks : OpSucceed(i)
  \/ \E i \in Tasks : OpFail(i)
  \/ \E i \in Tasks : SleepDone(i)
  \/ \E i \in Tasks : RateLimitWake(i)
  \/ \E i \in Tasks : RetryTimer(i)

\* Tasks with retries, and a caller waiting for the queue to be idle
Next ==
  \/ Submit
  \/ OnIdle
  \/ Run
  \/ Clock

Spec == Init /\ [][Next]_vars

\* Tasks with priorities and no retries, on a queue that is paused and resumed
NextOrder ==
  \/ SubmitPriority
  \/ Pause
  \/ Resume
  \/ \E i \in Tasks : OpSucceed(i)
  \/ \E i \in Tasks : OpFailTransient(i)
  \/ \E i \in Tasks : RateLimitWake(i)
  \/ Clock

SpecOrder == Init /\ [][NextOrder]_vars

\* SpecOrder with operations that end and timers that fire
SpecPause ==
  /\ SpecOrder
  /\ WF_vars(\E i \in Tasks : OpSucceed(i))
  /\ WF_vars(\E i \in Tasks : RateLimitWake(i))
  /\ WF_vars(Clock)

\* Few tasks with more retries, which the caller may abort
NextRetry ==
  \/ SubmitRetry
  \/ \E i \in Tasks : Abort(i)
  \/ Run
  \/ Clock

SpecRetry == Init /\ [][NextRetry]_vars

\* One addBatch call
NextBatch ==
  \/ AddBatch
  \/ BatchSettled
  \/ BatchWake
  \/ Run
  \/ Clock

SpecBatch == Init /\ [][NextBatch]_vars

\* Tasks without retries on a queue that the caller destroys
NextShutdown ==
  \/ SubmitShutdown
  \/ Destroy
  \/ \E i \in Tasks : OpSucceed(i)
  \/ \E i \in Tasks : OpFailTransient(i)
  \/ \E i \in Tasks : RateLimitWake(i)
  \/ Clock

SpecShutdown == Init /\ [][NextShutdown]_vars

\* An addBatch call and a caller that waits for the queue to be idle
NextBatchIdle ==
  \/ AddBatch
  \/ BatchSettled
  \/ BatchWake
  \/ OnIdle
  \/ Run
  \/ Clock

SpecBatchIdle == Init /\ [][NextBatchIdle]_vars

\* SpecBatch with operations that end, timers that fire and continuations
\* that run; the weak fairness of BatchSettled is written out with its
\* enabling condition
SpecBatchFair ==
  /\ SpecBatch
  /\ WF_vars(Run)
  /\ WF_vars(Clock)
  /\ \/ []<>~(batch.pc = "awaiting" /\ AllSettled(batch, task))
     \/ []<><<BatchSettled>>_vars
  /\ WF_vars(BatchWake)

\* Tasks with retries on a queue that the caller destroys
NextDrain ==
  \/ SubmitDrain
  \/ Destroy
  \/ Run
  \/ Clock

SpecDrain == Init /\ [][NextDrain]_vars

\* Tasks that go to distinct destinations and succeed, after any duration
NextWindow ==
  \/ Watch
  \/ SubmitWindow
  \/ \E i \in Tasks : OpSucceed(i)
  \/ Clock

SpecWindow == Init /\ [][NextWindow]_vars

\* Tasks of two priorities whose failed attempts are retried
NextRequeue ==
  \/ SubmitRequeue
  \/ \E i \in Tasks : OpSucceed(i)
  \/ \E i \in Tasks : OpFailTransient(i)
  \/ \E i \in Tasks : SleepDone(i)
  \/ \E i \in Tasks : RateLimitWake(i)
  \/ \E i \in Tasks : RetryTimer(i)
  \/ Clock

SpecRequeue == Init /\ [][NextRequeue]_vars

\* ======================================================= ProgressTracker
\* src/src/services/ProgressTracker.ts.  The two Maps are sequences of entries
\* in insertion order.  The timestamp lastUpdate of an active entry is kept as
\* its age in seconds, up to MaxAge; startTime, seriesName and episodeName,
\* which only reach the log and the event text, are left out.  speed is the
\* exact quotient num / den in bytes per second; percentage is in hundredths
\* of a percent; null and undefined are the empty sequence.
Ids == {"a"}
PageArgs == 0..(MaxPages + 1)
ByteArgs == {<<>>} \cup {<<b>> : b \in 0..MaxBytes}
TotalByteArgs == {<<>>, <<MaxBytes>>}
ErrorArgs == {<<>>, <<"e">>}

MapHas(map, id) == \E k \in 1..Len(map) : map[k].id = id
MapGet(map, id) == map[CHOOSE k \in 1..Len(map) : map[k].id = id]
MapSet(map, id, entry) ==
  IF MapHas(map, id)
  THEN [k \in 1..Len(map) |-> IF map[k].id = id THEN entry ELSE map[k]]
  ELSE Append(map, entry)
MapDelete(map, id) == SelectSeq(map, LAMBDA e : e.id # id)

\* Math.round of the quotient num / den, den > 0
Round(num, den) == (2 * num + den) \div (2 * den)

NewEntry(id, totalPages) ==
  [id |-> id, status |-> "pending", currentPage |-> 0, totalPages |-> totalPages,
   downloadedBytes |-> 0, totalBytes |-> 0, age |-> 0,
   speed |-> [num |-> 0, den |-> 1], lastDownloadedBytes |-> <<>>,
   errors |-> <<>>]

CalculateSpeed(entry) ==
  LET timeDiff == entry.age
      bytesDiff == IF entry.lastDownloadedBytes = <<>> THEN 0
                   ELSE entry.downloadedBytes - entry.lastDownloadedBytes[1]
  IN IF timeDiff > 0
     THEN [entry EXCEPT !.speed = [num |-> bytesDiff,
                                   den |-> IF bytesDiff = 0 THEN 1 ELSE timeDiff],
                        !.lastDownloadedBytes = <<entry.downloadedBytes>>,
                        !.age = 0]
     ELSE [entry EXCEPT !.age = 0]

\* variant of CalculateETA: no check of currentPage against totalPages
CalculateETANoPageCheck(entry) ==
  IF entry.speed.num <= 0 THEN 0
  ELSE ((entry.totalPages - entry.currentPage) * 1000 * entry.speed.den)
         \div entry.speed.num

\* milliseconds, rounded down
CalculateETA(entry) ==
  IF entry.speed.num <= 0 \/ entry.currentPage >= entry.totalPages THEN 0
  ELSE ((entry.totalPages - entry.currentPage) * 1000 * entry.speed.den)
         \div entry.speed.num

FormatSpeed(speed) ==
  IF speed.num < 1024 * speed.den
  THEN ToString(Round(speed.num, speed.den)) \o " B/s"
  ELSE IF speed.num < 1024 * 1024 * speed.den
  THEN ToString(Round(speed.num, 1024 * speed.den)) \o " KB/s"
  ELSE ToString(Round(speed.num, 1024 * 1024 * speed.den)) \o " MB/s"

FormatETA(ms) ==
  IF ms <= 0 THEN "0s"
  ELSE LET seconds == ms \div 1000
           minutes == seconds \div 60
           hours == minutes \div 60
       IN IF hours > 0
          THEN ToString(hours) \o "h " \o ToString(minutes % 60) \o "m"
          ELSE IF minutes > 0
          THEN ToString(minutes) \o "m " \o ToString(seconds % 60) \o "s"
          ELSE ToString(seconds) \o "s"

CreateProgressObject(entry) ==
  [currentPage |-> entry.currentPage, totalPages |-> entry.totalPages,
   downloadedBytes |-> entry.downloadedBytes, totalBytes |-> entry.totalBytes,
   speed |-> FormatSpeed(entry.speed),
   eta |-> FormatETA(CalculateETA(entry)),
   percentage |-> IF entry.totalPages > 0
                  THEN Round(entry.currentPage * 10000, entry.totalPages) ELSE 0]

\* this.emit(name, this.createProgressObject(entry))
Event(name, entry) ==
  [name |-> name, id |-> entry.id, progress |-> CreateProgressObject(entry)]

Called(op, id) ==
  lastCall' = [op |-> op, id |-> id,
               repeat |-> lastCall.op = op /\ lastCall.id = id]

\* a call that finds no active entry: a warning at most
NotFound ==
  /\ emitted' = <<>>
  /\ UNCHANGED <<activeProgress, completedProgress>>

GetProgress(id) ==
  IF MapHas(activeProgress, id)
  THEN <<CreateProgressObject(MapGet(activeProgress, id))>>
  ELSE IF MapHas(completedProgress, id)
  THEN <<CreateProgressObject(MapGet(completedProgress, id))>>
  ELSE <<>>

\* the entry getProgress(id) reports
Reported(id) ==
  IF MapHas(activeProgress, id) THEN <<MapGet(activeProgress, id)>>
  ELSE IF MapHas(completedProgress, id) THEN <<MapGet(completedProgress, id)>>
  ELSE <<>>

\* start(id, totalPages), as it acts on the tracker
Start(id, totalPages) ==
  LET entry == NewEntry(id, totalPages)
  IN /\ activeProgress' = MapSet(activeProgress, id, entry)
     /\ emitted' = <<Event("progressStart", entry)>>
     /\ Called("start", id)
     /\ UNCHANGED completedProgress

PtStart(id, totalPages) == Start(id, totalPages) /\ UNCHANGED nonTrackerVars

UpdateEntry(entry, currentPage, downloadedBytes, totalBytes, error) ==
  CalculateSpeed(
    [entry EXCEPT !.currentPage = currentPage,
                  !.status = "downloading",
                  !.downloadedBytes = IF downloadedBytes # <<>>
                                      THEN downloadedBytes[1] ELSE @,
                  !.totalBytes = IF totalBytes # <<>> THEN totalBytes[1] ELSE @,
                  !.errors = @ \o error])

\* updateProgress(id, currentPage, additionalData), as it acts on the tracker
UpdateProgress(id, currentPage, downloadedBytes, totalBytes, error) ==
  /\ Called("updateProgress", id)
  /\ IF ~MapHas(activeProgress, id) THEN NotFound
     ELSE LET entry == UpdateEntry(MapGet(activeProgress, id), currentPage,
                                   downloadedBytes, totalBytes, error)
          IN /\ Len(entry.errors) <= MaxErrors
             /\ activeProgress' = MapSet(activeProgress, id, entry)
             /\ emitted' = <<Event("progressUpdate", entry)>>
             /\ UNCHANGED completedProgress

PtUpdateProgress(id, currentPage, downloadedBytes, totalBytes, error) ==
  /\ UpdateProgress(id, currentPage, downloadedBytes, totalBytes, error)
  /\ UNCHANGED nonTrackerVars

\* variant of CompleteEntry: currentPage left as the last update set it
CompleteEntryKeepsPage(entry, success) ==
  [entry EXCEPT !.status = IF success THEN "completed" ELSE "failed", !.age = 0]

CompleteEntry(entry, success) ==
  [entry EXCEPT !.status = IF success THEN "completed" ELSE "failed",
                !.age = 0,
                !.currentPage = IF success THEN entry.totalPages ELSE @]

\* complete(id, success), as it acts on the tracker
Complete(id, success) ==
  /\ Called(IF success THEN "complete" ELSE "completeFailed", id)
  /\ IF ~MapHas(activeProgress, id) THEN NotFound
     ELSE LET entry == CompleteEntry(MapGet(activeProgress, id), success)
          IN /\ emitted' = <<Event("progressComplete", entry)>>
             /\ completedProgress' = MapSet(completedProgress, id, entry)
             /\ activeProgress' = MapDelete(activeProgress, id)

PtComplete(id, success) == Complete(id, success) /\ UNCHANGED nonTrackerVars

\* variant of PauseEntry: pausing a paused entry resumes it
PauseEntryToggles(entry) ==
  [entry EXCEPT !.status = IF @ = "paused" THEN "downloading" ELSE "paused"]

PauseEntry(entry) == [entry EXCEPT !.status = "paused"]

\* variant of PtPause: the status is set and no event is emitted
PtPauseSilent(id) ==
  /\ Called("pause", id)
  /\ UNCHANGED nonTrackerVars
  /\ IF ~MapHas(activeProgress, id) THEN NotFound
     ELSE LET entry == PauseEntry(MapGet(activeProgress, id))
          IN /\ activeProgress' = MapSet(activeProgress, id, entry)
             /\ emitted' = <<>>
             /\ UNCHANGED completedProgress
PtPause(id) ==
  /\ Called("pause", id)
  /\ UNCHANGED nonTrackerVars
  /\ IF ~MapHas(activeProgress, id) THEN NotFound
     ELSE LET entry == PauseEntry(MapGet(activeProgress, id))
          IN /\ activeProgress' = MapSet(activeProgress, id, entry)
             /\ emitted' = <<Event("progressPause", entry)>>
             /\ UNCHANGED completedProgress

PtResume(id) ==
  /\ Called("resume", id)
  /\ UNCHANGED nonTrackerVars
  /\ IF ~MapHas(activeProgress, id) THEN NotFound
     ELSE LET entry == [MapGet(activeProgress, id) EXCEPT !.status = "downloading"]
          IN /\ activeProgress' = MapSet(activeProgress, id, entry)
             /\ emitted' = <<Event("progressResume", entry)>>
             /\ UNCHANGED completedProgress

PtCancel(id) ==
  /\ Called("cancel", id)
  /\ UNCHANGED nonTrackerVars
  /\ IF ~MapHas(activeProgress, id) THEN NotFound
     ELSE LET entry == [MapGet(activeProgress, id) EXCEPT !.status = "failed"]
          IN /\ emitted' = <<Event("progressCancel", entry)>>
             /\ completedProgress' = MapSet(completedProgress, id, entry)
             /\ activeProgress' = MapDelete(activeProgress, id)

\* the setInterval callback: updateAllProgress
PtTick ==
  /\ activeProgress' = [k \in 1..Len(activeProgress) |->
                          CalculateSpeed(activeProgress[k])]
  /\ emitted' = [k \in 1..Len(activeProgress) |->
                   Event("progressUpdate", CalculateSpeed(activeProgress[k]))]
  /\ Called("tick", "none")
  /\ UNCHANGED <<completedProgress, nonTrackerVars>>

\* a second passes
PtElapse ==
  /\ \E k \in 1..Len(activeProgress) : activeProgress[k].age < MaxAge
  /\ activeProgress' = [k \in 1..Len(activeProgress) |->
                          [activeProgress[k] EXCEPT !.age = Min(@ + 1, MaxAge)]]
  /\ UNCHANGED <<completedProgress, emitted, lastCall, nonTrackerVars>>

\* The calls on the records, without the passing of time: the age of
\* lastUpdate stays 0, so that no speed is computed
NextProgress ==
  \/ \E id \in Ids, totalPages \in 0..MaxPages : PtStart(id, totalPages)
  \/ \E id \in Ids, currentPage \in PageArgs, totalBytes \in TotalByteArgs,
        error \in ErrorArgs :
       PtUpdateProgress(id, currentPage, <<>>, totalBytes, error)
  \/ \E id \in Ids, success \in BOOLEAN : PtComplete(id, success)
  \/ \E id \in Ids : PtPause(id)
  \/ \E id \in Ids : PtResume(id)
  \/ \E id \in Ids : PtCancel(id)
  \/ PtTick

SpecProgress == Init /\ [][NextProgress]_vars

\* One record whose byte counts change while time passes
NextSpeed ==
  \/ \E totalPages \in 0..MaxPages : PtStart("a", totalPages)
  \/ \E currentPage \in PageArgs, downloadedBytes \in ByteArgs :
       PtUpdateProgress("a", currentPage, downloadedBytes, <<>>, <<>>)
  \/ \E success \in BOOLEAN : PtComplete("a", success)
  \/ PtTick
  \/ PtElapse

SpecSpeed == Init /\ [][NextSpeed]_vars

\* ======================================================= ImageDownloader
\* src/src/services/ImageDownloader.ts, downloadSingleImage for one filepath.
\* file.origin tells a file that was there before the call ("before") from
\* the one its write stream has made ("written").
ContentTypes == {"image/jpeg", "text/html", "none"}

\* response.headers['content-type']?.includes('image')
IncludesImage(contentType) == contentType \in {"image/jpeg"}

\* a file is at filepath before the first call
DlExistingFile(size) ==
  /\ download.pc = "idle"
  /\ ~file.exists
  /\ file' = [exists |-> TRUE, size |-> size, origin |-> "before"]
  /\ UNCHANGED <<download, nonDownloadVars>>

\* the call, up to the axios request
DlCall(skipExisting, convert) ==
  /\ download.pc \in {"idle", "returned", "failed"}
  /\ download.calls < MaxDownloads
  /\ LET d == [download EXCEPT !.calls = @ + 1, !.skipExisting = skipExisting,
                               !.convert = convert, !.contentType = "none",
                               !.chunks = 0, !.downloadedBytes = 0,
                               !.result = <<>>, !.error = <<>>]
     IN IF file.exists /\ skipExisting /\ file.size > MinValidSize
        THEN download' = [d EXCEPT !.pc = "returned",
                            !.result = <<[success |-> TRUE,
                                          downloadedBytes |-> file.size]>>]
        ELSE download' = [d EXCEPT !.pc = "requesting"]
  /\ UNCHANGED <<file, nonDownloadVars>>

\* the catch block: unlinkSync of an existing file succeeds or throws, then
\* the DownloadError whose message holds the caught error
Catch(d, cause, unlinkThrows) ==
  /\ unlinkThrows => file.exists
  /\ file' = IF file.exists /\ ~unlinkThrows
             THEN [exists |-> FALSE, size |-> 0, origin |-> "none"] ELSE file
  /\ download' = [d EXCEPT !.pc = "failed",
                           !.error = <<[code |-> "DOWNLOAD_FAILED", cause |-> cause]>>]

\* axios rejects: no connection, timeout, or an error status
DlRequestFails ==
  /\ download.pc = "requesting"
  /\ \E unlinkThrows \in BOOLEAN : Catch(download, "REQUEST_FAILED", unlinkThrows)
  /\ UNCHANGED nonDownloadVars

\* axios resolves with the response headers and the body stream
DlResponse ==
  /\ download.pc = "requesting"
  /\ \E contentType \in ContentTypes, unlinkThrows \in BOOLEAN :
       LET d == [download EXCEPT !.contentType = contentType]
       IN IF ~IncludesImage(contentType)
          THEN Catch(d, "INVALID_CONTENT_TYPE", unlinkThrows)
          ELSE /\ ~unlinkThrows
               /\ download' = [d EXCEPT !.pc = "streaming"]
               /\ file' = [exists |-> TRUE, size |-> 0, origin |-> "written"]
  /\ UNCHANGED nonDownloadVars

\* pipeline passes a chunk to the write stream
DlChunk ==
  /\ download.pc = "streaming"
  /\ download.chunks < MaxChunks
  /\ download' = [download EXCEPT !.chunks = @ + 1,
                                  !.downloadedBytes = @ + ChunkSize]
  /\ file' = [file EXCEPT !.size = @ + ChunkSize]
  /\ UNCHANGED nonDownloadVars

\* pipeline rejects: the response or the write stream has failed
DlStreamFails ==
  /\ download.pc = "streaming"
  /\ \E unlinkThrows \in BOOLEAN : Catch(download, "STREAM_FAILED", unlinkThrows)
  /\ UNCHANGED nonDownloadVars

Return(d) ==
  [d EXCEPT !.pc = "returned",
            !.result = <<[success |-> TRUE, downloadedBytes |-> d.downloadedBytes]>>]

\* pipeline resolves: the body has ended
DlStreamEnds ==
  /\ download.pc = "streaming"
  /\ download' = IF download.convert THEN [download EXCEPT !.pc = "converting"]
                 ELSE Return(download)
  /\ UNCHANGED <<file, nonDownloadVars>>

\* convertImage: its output path is filepath itself, so it unlinks nothing,
\* and it catches its own errors
DlConverted ==
  /\ download.pc = "converting"
  /\ download' = Return(download)
  /\ UNCHANGED <<file, nonDownloadVars>>

NextDownload ==
  \/ \E size \in {ChunkSize, 2 * ChunkSize} : DlExistingFile(size)
  \/ \E skipExisting, convert \in BOOLEAN : DlCall(skipExisting, convert)
  \/ DlRequestFails
  \/ DlResponse
  \/ DlChunk
  \/ DlStreamFails
  \/ DlStreamEnds
  \/ DlConverted

SpecDownload == Init /\ [][NextDownload]_vars

\* --------------------------------------------------------- downloadChapter
\* The directory is created and the chapter is not skipped.  The tasks given
\* to addBatch are the downloadSingleImage calls of the pages, run by the
\* queue; of a call, the chunks of the response and how it settles are kept.
ChapterId == "a"

\* the content-length header of a page's response
ContentLength == MaxChunks * ChunkSize

\* downloadChapter(sources, ...) up to its first await: start(), and addBatch
\* up to its first await
DownloadChapter ==
  /\ chapter.pc = "idle"
  /\ batch.pc = "idle"
  /\ \E totalPages \in 1..MaxChapterPages, batchSize \in 1..MaxBatchSize :
       /\ Start(ChapterId, totalPages)
       /\ CommitQueue(BatchLoop(
            [Cur EXCEPT !.batch.tasks = totalPages,
                        !.batch.batchSize = Min(batchSize, DownloadBatchCap),
                        !.batch.delayBetweenBatches = DownloadBatchDelay]))
       /\ chapter' = [pc |-> "awaitingBatch", totalPages |-> totalPages,
                      pages |-> [k \in 1..totalPages |->
                                   [attempt |-> 0, downloadedBytes |-> 0]],
                      result |-> <<>>]
  /\ UNCHANGED <<downloadVars, probeVars>>

\* a chunk of the response of sources.sources[index] arrives: the 'data'
\* handler of downloadSingleImage calls onProgress, which calls
\* updateProgress(progressId, index + 1, progress)
PageChunk(index) ==
  /\ chapter.pc = "awaitingBatch"
  /\ index + 1 <= Len(batch.ops)
  /\ LET i == batch.ops[index + 1]
         page == chapter.pages[index + 1]
         downloadedBytes == (IF page.attempt = task[i].attempt
                             THEN page.downloadedBytes ELSE 0) + ChunkSize
     IN /\ task[i].pc = "running"
        /\ downloadedBytes <= ContentLength
        /\ chapter' = [chapter EXCEPT !.pages[index + 1] =
                         [attempt |-> task[i].attempt,
                          downloadedBytes |-> downloadedBytes]]
        /\ UpdateProgress(ChapterId, index + 1, <<downloadedBytes>>,
                          <<ContentLength>>, <<>>)
  /\ UNCHANGED <<queueVars, downloadVars, probeVars>>

\* addBatch has returned and saveEpisodeMetadata resolves: complete(), and the
\* result is returned
ChapterSaved ==
  /\ chapter.pc = "awaitingBatch"
  /\ batch.pc = "returned"
  /\ LET successfulDownloads == AddBatchReturn.succeeded
     IN chapter' = [chapter EXCEPT
                      !.pc = "returned",
                      !.result = <<[success |-> Len(successfulDownloads) > 0,
                                    downloadedPages |-> Len(successfulDownloads)]>>]
  /\ Complete(ChapterId, TRUE)
  /\ UNCHANGED <<queueVars, downloadVars, probeVars>>

\* addBatch has returned and saveEpisodeMetadata throws what writeFileSync
\* threw: the catch block returns the failure result
ChapterSaveThrows ==
  /\ chapter.pc = "awaitingBatch"
  /\ batch.pc = "returned"
  /\ chapter' = [chapter EXCEPT
                   !.pc = "returned",
                   !.result = <<[success |-> FALSE, downloadedPages |-> 0]>>]
  /\ UNCHANGED <<queueVars, trackerVars, downloadVars, probeVars>>

\* One downloadChapter call on the downloader's queue and tracker.  The
\* tracker's periodic update and the ageing of its entries write speed and
\* lastUpdate only; they are the subject of SpecSpeed and take no step here.
NextChapter ==
  \/ DownloadChapter
  \/ \E index \in 0..(MaxChapterPages - 1) : PageChunk(index)
  \/ ChapterSaved
  \/ ChapterSaveThrows
  \/ BatchSettled
  \/ BatchWake
  \/ \E i \in Tasks : OpSucceed(i)
  \/ \E i \in Tasks : OpFailTransient(i)
  \/ \E i \in Tasks : SleepDone(i)
  \/ \E i \in Tasks : RateLimitWake(i)
  \/ \E i \in Tasks : RetryTimer(i)
  \/ Clock

SpecChapter == Init /\ [][NextChapter]_vars

\* ------------------------------------------- calculateBackoff, isHealthy
\* Math.random() * 0.1 * delay for Math.random() = r / RandomSteps, in whole
\* milliseconds
Jitter(delay, r) == (r * delay) \div (10 * RandomSteps)

\* calculateBackoff(attempt) is called
ProbeBackoff ==
  /\ \E attempt \in 1..MaxAttempt, r \in 0..(RandomSteps - 1) :
       LET delay == BackoffDelay(attempt)
       IN probe' = [fn |-> "calculateBackoff", attempt |-> attempt,
                    delay |-> delay, jitter |-> Jitter(delay, r),
                    result |-> CalculateBackoff(attempt, Jitter(delay, r))]
  /\ UNCHANGED <<queueVars, trackerVars, downloadVars, chapterVars>>

SpecBackoff == Init /\ [][ProbeBackoff]_vars

\* isHealthy() for a queue that is paused or not and holds size waiting tasks
IsHealthy(paused, size) == ~paused /\ size < HealthCeiling

\* isHealthy() is called
ProbeHealthy ==
  /\ \E paused \in BOOLEAN,
        size \in (HealthCeiling - SizeSpread)..(HealthCeiling + SizeSpread) :
       probe' = [fn |-> "isHealthy", isPaused |-> paused, size |-> size,
                 result |-> IsHealthy(paused, size)]
  /\ UNCHANGED <<queueVars, trackerVars, downloadVars, chapterVars>>

SpecHealth == Init /\ [][ProbeHealthy]_vars

\* ================================================================ claims
Range(q) == {q[j] : j \in 1..Len(q)}

\* C1: for every destination key, two consecutive dispatches to it
\* (enforceRateLimit recording lastRequestTime) are at least requestDelay
\* apart, in every interleaving.
C1_DispatchGap ==
  [][\A d \in Domains :
       (requestCounts'[d] > requestCounts[d] /\ requestCounts[d] > 0)
         => lastRequestAge[d] >= RequestDelay]_vars

\* C2: the number of tasks dispatched and not yet settled, those in a
\* rate-limit wait or a backoff wait included, is at most maxConcurrent.
C2_ConcurrencyBound ==
  Cardinality({i \in Tasks : task[i].pc \in InFlight}) <= MaxConcurrent

C2_Witness ==
  /\ Cardinality({i \in Tasks : task[i].pc \in InFlight}) = MaxConcurrent
  /\ \E i \in Tasks : task[i].pc \in {"backoffSleep", "retryWait"}
  /\ \E i \in Tasks : task[i].pc = "rateLimitWait"
  /\ Len(queue) > 0

\* C3: a task leaves the ready set only if it has a higher priority than
\* every task still waiting, or the same priority and an earlier submission.
C3_PriorityOrder ==
  [][\A i \in Tasks :
       (task[i].pc \in {"unsubmitted", "queued"}
          /\ task'[i].pc \notin {"unsubmitted", "queued"})
         => \A j \in Tasks :
              task'[j].pc = "queued"
                => \/ task'[i].priority > task'[j].priority
                   \/ task'[i].priority = task'[j].priority /\ i < j]_vars

C3_Witness ==
  \E i, j \in Tasks :
    /\ j < i
    /\ task[j].pc = "queued"
    /\ task[i].pc \in InFlight \cup Settled
    /\ task[i].priority > task[j].priority
    /\ \E k \in Tasks : k < j /\ task[k].priority = task[j].priority
                          /\ task[k].pc \in InFlight \cup Settled

\* C4: what addBatch returns holds an entry, succeeded or failed, for every
\* input operation.
C4_ResultForEveryInput ==
  batch.pc = "returned"
    => Len(AddBatchReturn.succeeded) + Len(AddBatchReturn.failed) = batch.tasks

C6_ResultsInInputOrder ==
  /\ \A a, b \in 1..Len(batch.results) : a < b => batch.results[a] < batch.results[b]
  /\ \A a \in 1..Len(batch.results) : IsFulfilled(batch, task, batch.results[a])

C6_Witness ==
  /\ batch.pc = "returned"
  /\ batch.batchSize = 2
  /\ batch.results = <<0, 1, 2>>
  /\ task[batch.ops[1]].invocations = 2
  /\ task[batch.ops[2]].invocations = 1

\* C7: a task that succeeds on its 3rd attempt after 2 failures resolves
\* after exactly 3 invocations and reports attempts = 3 (the attempt counter
\* of its queue item).
C7_ReportsAttempts ==
  \A i \in Tasks :
    (task[i].pc = "resolved" /\ task[i].attempt = 3)
      => task[i].invocations = 3 /\ task[i].retries = 3

C9_OneTerminalEvent ==
  \A i \in Tasks :
    /\ task[i].pc = "resolved" => task[i].taskComplete = 1 /\ task[i].taskError = 0
    /\ (task[i].pc = "rejected" /\ task[i].err.kind # "Aborted")
         => task[i].taskComplete = 0 /\ task[i].taskError = 1

\* C10: onIdle() resolves only when the ready set is empty and no task is
\* executing, a task waiting between two attempts counting as executing.
C10_IdleOnlyWhenDrained ==
  /\ [](onIdlePromise = "pending"
          => \E i \in Tasks : task[i].pc \in InFlight \cup {"queued"})
  /\ [][(onIdlePromise' \in {"returned", "resolved"} /\ onIdlePromise' # onIdlePromise)
          => \A i \in Tasks : task'[i].pc \in {"unsubmitted"} \cup Settled]_vars

C10_Witness ==
  /\ onIdlePromise = "resolved"
  /\ \A i \in 1..MaxTasks : task[i].pc \in Settled
  /\ \E i \in Tasks : task[i].invocations > 1
\* C11: once destroy() has completed, a submit (add) fails at once with a
\* "queue closed" error and its operation is not invoked.
C11_ClosedAfterDestroy ==
  [][destroyPc = "done"
       => \A i \in Tasks :
            task[i].pc = "unsubmitted"
              => /\ task'[i].pc \in {"unsubmitted", "rejected"}
                 /\ task'[i].invocations = 0
                 /\ task'[i].pc = "rejected" => task'[i].err.kind = "QueueClosed"]_vars

\* C12: once a task's abort signal is set, the next attempt check rejects
\* the task's promise: no further attempt or retry wait is scheduled and the
\* operation is not invoked again.
C12_AbortSurfacesAtNextCheck ==
  [][\A i \in Tasks :
       (task[i].aborted /\ task[i].pc \in {"queued", "retryWait"}
          /\ task'[i].attempt > task[i].attempt)
         => task'[i].pc = "rejected" /\ task'[i].invocations = task[i].invocations]_vars

Entries == Range(activeProgress) \cup Range(completedProgress)

\* C13: once complete(id) or cancel(id) has been applied to a record, no
\* ProgressTracker call changes the record reported for that id.
C13_TerminalAbsorbing ==
  [][\A id \in Ids :
       MapHas(completedProgress, id) => Reported(id)' = Reported(id)]_vars

\* C14: every progress record has currentPage <= totalPages.
C14_PageWithinTotal ==
  \A entry \in Entries : entry.currentPage <= entry.totalPages

\* C15: after complete(id, true) on an active record, the record is in the
\* completed set with status completed and currentPage = totalPages, and
\* so says the progressComplete event.
C15_CompleteClampsPage ==
  (lastCall.op = "complete" /\ emitted # <<>>)
    => /\ ~MapHas(activeProgress, lastCall.id)
       /\ MapHas(completedProgress, lastCall.id)
       /\ LET entry == MapGet(completedProgress, lastCall.id)
          IN /\ entry.status = "completed"
             /\ entry.currentPage = entry.totalPages
       /\ emitted[1].name = "progressComplete"
       /\ emitted[1].progress.currentPage = emitted[1].progress.totalPages

C15_Witness ==
  /\ lastCall.op = "complete"
  /\ emitted # <<>>
  /\ MapGet(completedProgress, lastCall.id).totalPages = MaxPages
  /\ MapGet(completedProgress, lastCall.id).errors # <<>>

\* C16: for every progress record, and every event made from it, the eta
\* is 0 when currentPage >= totalPages or the speed is zero.
C16_EtaZero ==
  /\ \A entry \in Entries :
       (entry.currentPage >= entry.totalPages \/ entry.speed.num = 0)
         => /\ CalculateETA(entry) = 0
            /\ CreateProgressObject(entry).eta = "0s"
  /\ \A k \in 1..Len(emitted) :
       LET entry == Reported(emitted[k].id)[1]
       IN (entry.currentPage >= entry.totalPages \/ entry.speed.num = 0)
            => emitted[k].progress.eta = "0s"

C16_Witness ==
  /\ emitted # <<>>
  /\ emitted[1].name = "progressUpdate"
  /\ emitted[1].progress.eta = "0s"
  /\ Reported(emitted[1].id)[1].speed.num > 0
  /\ Reported(emitted[1].id)[1].currentPage > Reported(emitted[1].id)[1].totalPages

\* C17: a second pause(id) right after pause(id) leaves the records, and
\* the event it emits, as the first call left them.
C17_PauseIdempotent ==
  [][(lastCall.op = "pause" /\ lastCall'.op = "pause" /\ lastCall'.id = lastCall.id
        /\ lastCall'.repeat)
       => /\ activeProgress' = activeProgress
          /\ completedProgress' = completedProgress
          /\ emitted' = emitted]_vars

C17_Witness ==
  /\ lastCall = [op |-> "pause", id |-> "a", repeat |-> TRUE]
  /\ MapHas(activeProgress, "a")
  /\ MapGet(activeProgress, "a").status = "paused"
  /\ emitted # <<>>
\* C18: a fetch whose response declares a content kind that is not an image
\* fails with an invalid-response error and leaves no file at the sink path.
C18_InvalidContentType ==
  (download.pc = "failed" /\ download.error[1].cause = "INVALID_CONTENT_TYPE")
    => /\ download.error[1].code = "INVALID_CONTENT_TYPE"
       /\ ~file.exists

\* C19: in every state where the fetch has failed, no file that it has
\* written, partly or wholly, is at the sink path.
C19_NoPartialFile ==
  download.pc = "failed" => ~(file.exists /\ file.origin = "written")

\* C20: a fetch does not return success for a body with fewer bytes than
\* the minimum valid size.
C20_MinimumSize ==
  download.pc = "returned" => download.result[1].downloadedBytes >= MinValidSize

\* C29: pause(id) changes the status of a record only when it is Active
\* (downloading) and resume(id) only when it is Paused; on a record that is
\* still Pending neither changes the status.
C29_PauseResumeStateMachine ==
  [][\A id \in Ids :
       (MapHas(activeProgress, id) /\ MapHas(activeProgress', id)
          /\ MapGet(activeProgress', id).status # MapGet(activeProgress, id).status)
         => /\ lastCall'.op = "pause" => MapGet(activeProgress, id).status = "downloading"
            /\ lastCall'.op = "resume" => MapGet(activeProgress, id).status = "paused"]_vars

\* C30: after cancel(id) on an active record, the record is in the completed
\* set with the status cancelled, which is not the status failed, and a
\* progressCancel event has been emitted for it.
C30_CancelledStatus ==
  (lastCall.op = "cancel" /\ emitted # <<>>)
    => /\ MapHas(completedProgress, lastCall.id)
       /\ MapGet(completedProgress, lastCall.id).status = "cancelled"
       /\ emitted[1].name = "progressCancel"
       /\ emitted[1].id = lastCall.id

\* C22: the backoff sleep after failed attempt number attempt (counted from
\* 1) is min(baseDelay * multiplier^(attempt - 1), maxDelay) plus a jitter
\* of at most a tenth of it.
C22_BackoffFromBaseDelay ==
  [][\A i \in Tasks :
       (task[i].pc = "running" /\ task'[i].pc = "backoffSleep")
         => LET delay == Min(BaseDelay * Pow(BackoffMultiplier, task[i].attempt - 1),
                             MaxDelay)
            IN /\ task'[i].wake >= delay
               /\ 10 * task'[i].wake <= 11 * delay]_vars

\* C21: for every attempt number the backoff delay is at most maxDelay * 1.1,
\* and its exponential term does not decrease when the attempt number grows
\* and stays at maxDelay once it has reached it.
C21_BackoffCapped ==
  /\ [](probe.fn = "calculateBackoff"
          => /\ 10 * probe.result <= 11 * MaxDelay
             /\ probe.delay <= MaxDelay
             /\ probe.result = probe.delay + probe.jitter)
  /\ [][(probe.fn = "calculateBackoff" /\ probe'.attempt >= probe.attempt)
          => /\ probe'.delay >= probe.delay
             /\ probe.delay = MaxDelay => probe'.delay = MaxDelay]_vars

C21_Witness ==
  /\ probe.fn = "calculateBackoff"
  /\ probe.attempt = MaxAttempt
  /\ probe.delay = MaxDelay
  /\ probe.result > MaxDelay

\* C23: isHealthy() returns false exactly when the queue is paused or its
\* size exceeds the ceiling; with the size at the ceiling and the queue not
\* paused it returns true.
C23_HealthyAtCeiling ==
  probe.fn = "isHealthy"
    => (probe.result = FALSE <=> (probe.isPaused \/ probe.size > HealthCeiling))

\* C26: when an attempt fails with a RateLimitError that carries a positive
\* retryAfter, the sleep that follows is exactly retryAfter and the computed
\* backoff is taken only without one; nothing of the task runs before the
\* sleep has elapsed, and after it a task with attempts left is retried.
C26_RetryAfterOverrides ==
  [][\A i \in Tasks :
       /\ (task[i].pc = "running" /\ task'[i].pc = "rateLimitedSleep")
            => LET r == task'[i].err.retryAfter
                   delay == BackoffDelay(task[i].attempt)
               IN /\ task'[i].err.kind = "RateLimit"
                  /\ r > 0 => task'[i].wake = r
                  /\ r <= 0 => /\ task'[i].wake >= delay
                               /\ 10 * task'[i].wake <= 11 * delay
       /\ (task[i].pc = "rateLimitedSleep" /\ task[i].wake > 0)
            => /\ task'[i].pc = "rateLimitedSleep"
               /\ task'[i].invocations = task[i].invocations
               /\ task'[i].wake <= task[i].wake
       /\ (task[i].pc = "rateLimitedSleep" /\ task'[i].pc # "rateLimitedSleep"
             /\ task[i].attempt <= task[i].maxRetries)
            => /\ task'[i].pc = "retryWait"
               /\ task'[i].invocations = task[i].invocations]_vars

C26_Witness ==
  \E i \in Tasks :
    /\ task[i].pc = "rateLimitedSleep"
    /\ task[i].err.retryAfter = 1000
    /\ task[i].attempt <= task[i].maxRetries
    /\ task[i].wake = 0

\* C25: addBatch works through its batches one after another: an operation
\* of a later batch is submitted only when every operation of the batches
\* before it has settled, their onBatchComplete calls have been made, once
\* each and with their batch index, and delayBetweenBatches has elapsed; no
\* sleep follows the last batch.
C25_BatchesInSequence ==
  /\ [](Len(batch.ops) > 0
          => LET chunk == (Len(batch.ops) - 1) \div batch.batchSize
             IN /\ \A p \in 1..Len(batch.ops) :
                     (p - 1) \div batch.batchSize < chunk
                       => task[batch.ops[p]].pc \in Settled
                /\ Len(batch.callbacks) \in {chunk, chunk + 1}
                /\ \A c \in 1..Len(batch.callbacks) : batch.callbacks[c][2] = c - 1
                /\ Len(batch.callbacks) = chunk + 1
                     => \A p \in 1..Len(batch.ops) : task[batch.ops[p]].pc \in Settled
                /\ batch.pc = "sleeping" => Len(batch.ops) < batch.tasks
                /\ batch.pc = "returned" => Len(batch.callbacks) = chunk + 1)
  /\ [][/\ (Len(batch.ops') > Len(batch.ops) /\ Len(batch.ops) > 0
              /\ batch.delayBetweenBatches > 0)
            => batch.pc = "sleeping" /\ batch.wake = 0
        /\ (batch.pc # "sleeping" /\ batch'.pc = "sleeping")
            => /\ batch'.wake = batch.delayBetweenBatches
               /\ Len(batch'.callbacks) = Len(batch.callbacks) + 1
        /\ (batch.pc = "sleeping" /\ batch.wake > 0)
            => /\ batch'.pc = "sleeping"
               /\ batch'.wake <= batch.wake
        /\ (batch.pc # "returned" /\ batch'.pc = "returned")
            => batch.pc = "awaiting"]_vars

C25_Witness ==
  /\ batch.pc = "returned"
  /\ batch.tasks = 3
  /\ batch.batchSize = 2
  /\ batch.delayBetweenBatches = RequestDelay
  /\ Len(batch.callbacks) = 2
  /\ batch.callbacks[2][2] = 1

\* C24: while the queue is paused no waiting task is dispatched; pause()
\* touches no task, and a task in flight can go on and finish while the
\* queue is paused; resume() dispatches waiting tasks at once as far as the
\* limits allow, and in a queue that stays resumed the waiting tasks are
\* eventually all dispatched.
C24_PauseHoldsResumeReleases ==
  /\ [](\A i \in Tasks :
          (isPaused /\ task[i].pc = "running") => ENABLED OpSucceed(i))
  /\ [][/\ isPaused'
            => \A i \in Tasks :
                 task[i].pc \in {"unsubmitted", "queued"}
                   => task'[i].pc \in {"unsubmitted", "queued"}
        /\ (~isPaused /\ isPaused') => task' = task /\ pending' = pending
        /\ (isPaused /\ ~isPaused')
            => \/ Len(queue') = 0
               \/ pending' >= MaxConcurrent
               \/ intervalCount' >= IntervalCap]_vars
  /\ <>[](~isPaused)
       => ((\E i \in Tasks : task[i].pc = "queued")
             ~> (\A i \in Tasks : task[i].pc # "queued"))

C24_Witness ==
  /\ isPaused
  /\ Len(queue) > 0
  /\ pending = 0
  /\ \E i \in Tasks : task[i].pc = "resolved"

\* C27: the retry of a failed attempt goes through the ready set again at
\* the priority of its task: no retry starts while a task of strictly higher
\* priority is waiting for a slot.
C27_RetryRequeued ==
  [][\A i \in Tasks :
       (task[i].pc = "retryWait" /\ task'[i].pc # "retryWait")
         => \A j \in Tasks :
              task[j].pc = "queued" => task[j].priority <= task[i].priority]_vars

\* C28: in any rolling window of Interval milliseconds the queue starts at
\* most 2 * maxConcurrent jobs, whatever the destinations and the durations
\* of the tasks.
C28_RollingWindowCap ==
  dispatchLog.on => Len(dispatchLog.ages) <= IntervalCap

\* C31: updateProgress accumulates the byte amounts it is given, so the
\* downloadedBytes of an active record never decreases from one update to
\* the next.
C31_BytesAccumulate ==
  [][\A id \in Ids :
       (lastCall'.op = "updateProgress" /\ lastCall'.id = id
          /\ MapHas(activeProgress, id) /\ MapHas(activeProgress', id))
         => MapGet(activeProgress', id).downloadedBytes
              >= MapGet(activeProgress, id).downloadedBytes]_vars

\* C33: a tick emits progressUpdate for the records whose status is
\* downloading and for no other: a paused or pending record gets none.
C33_TickOnlyForActive ==
  lastCall.op = "tick"
    => \A k \in 1..Len(emitted) :
         /\ MapHas(activeProgress, emitted[k].id)
         /\ MapGet(activeProgress, emitted[k].id).status = "downloading"

\* the event each call emits
EventOf(op) ==
  CASE op = "start" -> "progressStart"
    [] op = "updateProgress" -> "progressUpdate"
    [] op = "pause" -> "progressPause"
    [] op = "resume" -> "progressResume"
    [] op = "cancel" -> "progressCancel"
    [] op \in {"complete", "completeFailed"} -> "progressComplete"

\* C34: start, and every updateProgress, pause, resume, cancel and complete
\* that finds an active record for its id, emits its event for that record
\* within the call; a call that finds no active record emits nothing and
\* changes no record.
C34_EventPerTransition ==
  [][lastCall'.op \in {"start", "updateProgress", "pause", "resume", "cancel",
                      "complete", "completeFailed"}
       => IF lastCall'.op = "start" \/ MapHas(activeProgress, lastCall'.id)
          THEN /\ Len(emitted') >= 1
               /\ emitted'[1].name = EventOf(lastCall'.op)
               /\ emitted'[1].id = lastCall'.id
          ELSE /\ emitted' = <<>>
               /\ activeProgress' = activeProgress
               /\ completedProgress' = completedProgress]_vars

C34_Witness ==
  /\ lastCall.op = "resume"
  /\ emitted # <<>>
  /\ emitted[1].name = "progressResume"
  /\ MapHas(activeProgress, lastCall.id)
  /\ MapHas(completedProgress, lastCall.id)

\* C37: no id is in activeProgress and in completedProgress at once.
C37_ActiveCompletedDisjoint ==
  \A id \in Ids : ~(MapHas(activeProgress, id) /\ MapHas(completedProgress, id))

\* C40: a downloadSingleImage call that fails before it has written a byte
\* (the request fails, or the content type is not an image) leaves a file
\* that was at filepath before the call as it was.
C40_KeepsPreExistingFile ==
  [][(download.pc = "requesting" /\ download'.pc = "failed"
        /\ file.exists /\ file.origin = "before")
       => file' = file]_vars

\* C35: destroy() resolves only when every submitted task has settled, its
\* retries included; at that moment no task is waiting or executing and the
\* per-domain maps are empty.  Until then it releases nothing.
C35_DestroyDrains ==
  /\ [](destroyPc = "draining"
          => \E i \in Tasks : task[i].pc \in InFlight \cup {"queued"})
  /\ [][(destroyPc # "done" /\ destroyPc' = "done")
          => /\ \A i \in Tasks : task'[i].pc \in {"unsubmitted"} \cup Settled
             /\ Len(queue') = 0
             /\ pending' = 0
             /\ \A d \in Domains : requestCounts'[d] = 0
             /\ \A d \in Domains : lastRequestAge'[d] = RequestDelay]_vars

C35_Witness ==
  /\ destroyPc = "done"
  /\ \A i \in 1..MaxDrainTasks : task[i].pc \in Settled
  /\ \E i \in Tasks : task[i].invocations = DrainRetries + 1
  /\ requestCounts["unknown"] = 0

\* C36: onIdle() does not resolve while an addBatch call still has
\* operations that it has not submitted.
C36_NoIdleDuringBatch ==
  [][(onIdlePromise' \in {"returned", "resolved"} /\ onIdlePromise' # onIdlePromise)
       => ~(batch'.pc \in {"awaiting", "sleeping"}
              /\ Len(batch'.ops) < batch'.tasks)]_vars

\* C39: an addBatch call returns; by then it has made ceil(N / batchSize)
\* passes, has submitted each of its N operations exactly once, and no pass
\* has submitted more than batchSize operations.
C39_BatchTerminates ==
  /\ (batch.pc # "idle") ~> (batch.pc = "returned")
  /\ [](batch.pc = "returned"
          => /\ Len(batch.ops) = batch.tasks
             /\ \A p, q \in 1..Len(batch.ops) : p # q => batch.ops[p] # batch.ops[q]
             /\ Len(batch.callbacks)
                  = (batch.tasks + batch.batchSize - 1) \div batch.batchSize)
  /\ [][Len(batch'.ops) <= Len(batch.ops) + batch'.batchSize]_vars

C39_Witness ==
  /\ batch.pc = "returned"
  /\ batch.tasks = MaxBatchOps
  /\ batch.batchSize = MaxBatchSize
  /\ Len(batch.ops) = MaxBatchOps
  /\ \E p \in 1..Len(batch.ops) : task[batch.ops[p]].pc = "rejected"

\* C32: while the concurrent page downloads of a chapter report chunks to the
\* chapter's progress record, currentPage never decreases from one update to
\* the next.
C32_PageNeverDecreases ==
  [][(\E index \in 0..(MaxChapterPages - 1) : PageChunk(index))
       => MapGet(activeProgress', ChapterId).currentPage
            >= MapGet(activeProgress, ChapterId).currentPage]_vars

\* C38: when downloadChapter has returned, the progress record it started is
\* no longer active and is in the completed set, on every path.
C38_TerminalOnReturn ==
  chapter.pc = "returned"
    => /\ ~MapHas(activeProgress, ChapterId)
       /\ MapHas(completedProgress, ChapterId)
====
